---- MODULE Spec2Model ----
(***************************************************************************)
(* Model of the MultiUser object-synchronisation core                      *)
(* (src/unnamed/part_000): every peer runs one MultiUser instance; peers   *)
(* are linked by a signalling relay and by ordered peer-to-peer channels.  *)
(***************************************************************************)
EXTENDS Integers, Sequences, FiniteSets, Bags, TLC

(* ------------------------------------------------------------------ *)
(* Bounds of the model                                                  *)
(* ------------------------------------------------------------------ *)
MaxClock == 2      \* highest reading of a peer's performance.now()
MaxChan == 2       \* messages in flight on one directed channel
MaxLoads == 2      \* pending _loadObject promises per peer
MaxTimers == 2     \* pending 200 ms retries per peer
MaxCached == 2     \* descriptors queued before the identity is assigned
MaxTp == 2         \* live Transport Peers one peer holds for one remote id
MaxCalls == 3      \* calls one peer's application makes

Peers == {1, 2}
ObjIds == {"av", "hl", "hat", "gem", "prop", "box"}

NoOwner == 0       \* owner '' : unowned
Undef == -1        \* JavaScript undefined
NoParent == ""     \* no parent / parent {} (parent.id undefined)

(* The scene: the descriptor the application passes to addObject for    *)
(* each id. "av" is the local avatar setLocalAvatar adds, "hl" a hand    *)
(* found by name in it, "hat" a loaded child of it, "gem" a loaded child *)
(* of "hat", "prop" a loaded root; "hat" and "prop" have an animated key; *)
(* "box" has a type _loadObject does not know.                           *)
Scene ==
  [o \in ObjIds |->
     CASE o = "av"   -> [type |-> "Object3D", isAvatar |-> TRUE,  parent |-> NoParent,
                         animatedValues |-> <<>>]
       [] o = "hl"   -> [type |-> "name",     isAvatar |-> TRUE,  parent |-> "av",
                         animatedValues |-> <<>>]
       [] o = "hat"  -> [type |-> "path",     isAvatar |-> FALSE, parent |-> "av",
                         animatedValues |-> <<"visible">>]
       [] o = "gem"  -> [type |-> "path",     isAvatar |-> FALSE, parent |-> "hat",
                         animatedValues |-> <<>>]
       [] o = "box"  -> [type |-> "mesh",     isAvatar |-> FALSE, parent |-> NoParent,
                         animatedValues |-> <<>>]
       [] OTHER      -> [type |-> "path",     isAvatar |-> FALSE, parent |-> NoParent,
                         animatedValues |-> <<"visible">>]]

\* the types _loadObject's switch has a case for
KnownTypes == {"path", "name", "Object3D"}

VARIABLES
  id,            \* id[p]: this.id, Undef until the relay's 'open'
  clock,         \* clock[p]: the reading performance.now() returns at p
  objects,       \* objects[p]: this.objects, entries in insertion order
  cachedObjects, \* cachedObjects[p]: this.cachedObjects
  loads,         \* loads[p]: bag of pending _loadObject promises <<data, peerId>>
  timers,        \* timers[p]: pending setTimeout retries, in firing order
  tps,           \* tps[p][q]: live Transport Peers of p for remote q, oldest first
  pool,          \* pool[p][q]: this.remotePeers has an entry for q (the newest of tps[p][q])
  chan,          \* chan[p][q]: messages sent by p to q, not yet delivered
  emitted,       \* the notifications the handler that ran last raised
  threw,         \* the handler that ran last ended in an uncaught TypeError
  calls,         \* calls[p]: the calls p's application has made so far
  race,          \* history: how far a pair of concurrent grabs has got
  seen           \* history: the ids deferred and the 'add' notifications raised

vars == <<id, clock, objects, cachedObjects, loads, timers, tps, pool, chan,
          emitted, threw, calls, race, seen>>

(* ------------------------------------------------------------------ *)
(* The registry this.objects: a JavaScript object, keys in insertion   *)
(* order                                                                *)
(* ------------------------------------------------------------------ *)
Has(reg, o) == \E i \in 1..Len(reg) : reg[i].id = o

Idx(reg, o) == CHOOSE i \in 1..Len(reg) : reg[i].id = o

Get(reg, o) == reg[Idx(reg, o)]

Put(reg, rec) ==
  IF Has(reg, rec.id)
    THEN [reg EXCEPT ![Idx(reg, rec.id)] = rec]
    ELSE Append(reg, rec)

Del(reg, o) == SelectSeq(reg, LAMBDA r : r.id # o)

Keys(reg) == {reg[i].id : i \in 1..Len(reg)}

(* Array.prototype.indexOf and splice(index, 1) on a children array.    *)
IndexOf(s, x) ==
  IF \E i \in 1..Len(s) : s[i] = x
    THEN CHOOSE i \in 1..Len(s) : s[i] = x /\ \A j \in 1..(i - 1) : s[j] # x
    ELSE 0

Splice(s, i) == [j \in 1..(Len(s) - 1) |-> IF j < i THEN s[j] ELSE s[j + 1]]

Count(s, x) == Cardinality({i \in 1..Len(s) : s[i] = x})

\* the elements an array lists
Range(ids) == {ids[i] : i \in 1..Len(ids)}

\* position, rotation, scale: arrays; NoArray when a message has none
NoArray == <<Undef>>

\* animatedValues: an object from keys to values; {} has no key
NoValues == [k \in {} |-> Undef]

\* for (const key of Object.keys(g)) f[key] = g[key]
Assign(f, g) ==
  [k \in DOMAIN f \cup DOMAIN g |-> IF k \in DOMAIN g THEN g[k] ELSE f[k]]

(* ------------------------------------------------------------------ *)
(* Transport Peers, the pool this.remotePeers and the channels          *)
(* ------------------------------------------------------------------ *)
\* this.remotePeers[q] of peer p: the newest live Transport Peer for q
PoolPeer(p, q) == tps[p][q][Len(tps[p][q])]

\* peer.send(data) on a Transport Peer of p for q: the data is lost when
\* q holds no live Transport Peer for p any more
Send(p, q, msgs) ==
  IF tps[q][p] # <<>> THEN chan[p][q] \o msgs ELSE chan[p][q]

\* broadcast over every live Transport Peer, pooled and connected or not
broadcastUnpooled(p, msgs) ==
  [q \in Peers |-> IF tps[p][q] # <<>> THEN Send(p, q, msgs) ELSE chan[p][q]]

\* broadcast without the test of peer.connected
broadcastUnconnected(p, msgs) ==
  [q \in Peers |-> IF pool[p][q] THEN Send(p, q, msgs) ELSE chan[p][q]]

\* broadcast(data): every pooled Transport Peer that is connected
broadcast(p, msgs) ==
  [q \in Peers |->
     IF pool[p][q] /\ PoolPeer(p, q).connected THEN Send(p, q, msgs) ELSE chan[p][q]]

ChanOk(c) == \A q \in Peers : Len(c[q]) <= MaxChan

(* ------------------------------------------------------------------ *)
(* Messages of the data channel                                         *)
(* ------------------------------------------------------------------ *)
\* A message is a record of the fields any message can have; a field the
\* message leaves out is Undef ("" for object.type, NoArray for position,
\* rotation and scale, NoValues for animatedValues).
\* {type: 'update', firstUpdate: true, object: {type, value, lastUpdate, id,
\*  parent, isAvatar, owner}}
FirstUpdateMsg(oid, otype, isAv, parent, owner, lu) ==
  [type |-> "update", firstUpdate |-> TRUE, id |-> oid, owner |-> owner,
   lastUpdate |-> lu, otype |-> otype, isAvatar |-> isAv, parent |-> parent,
   position |-> NoArray, rotation |-> NoArray, scale |-> NoArray,
   animatedValues |-> NoValues]

\* {type: 'update', object: {id, lastUpdate, owner}}
OwnerMsg(oid, owner, lu) ==
  [type |-> "update", firstUpdate |-> FALSE, id |-> oid, owner |-> owner,
   lastUpdate |-> lu, otype |-> "", isAvatar |-> FALSE, parent |-> NoParent,
   position |-> NoArray, rotation |-> NoArray, scale |-> NoArray,
   animatedValues |-> NoValues]

\* {type: 'remove', object: {id, owner}}
RemoveMsg(oid, owner) ==
  [type |-> "remove", firstUpdate |-> FALSE, id |-> oid, owner |-> owner,
   lastUpdate |-> Undef, otype |-> "", isAvatar |-> FALSE, parent |-> NoParent,
   position |-> NoArray, rotation |-> NoArray, scale |-> NoArray,
   animatedValues |-> NoValues]

\* {type: 'update', object: {id, owner}, position, rotation, scale,
\*  animatedValues}: what sendData broadcasts
TransformMsg(oid, owner, at, values) ==
  [type |-> "update", firstUpdate |-> FALSE, id |-> oid, owner |-> owner,
   lastUpdate |-> Undef, otype |-> "", isAvatar |-> FALSE, parent |-> NoParent,
   position |-> at, rotation |-> at, scale |-> at,
   animatedValues |-> values]

(* ------------------------------------------------------------------ *)
(* addObject, up to the call of _loadObject                             *)
(* ------------------------------------------------------------------ *)
SelfTag == -2      \* owner 'self'

PeerSt(p) ==
  [objects |-> objects[p], cached |-> cachedObjects[p],
   loads |-> loads[p], timers |-> timers[p]]

StOk(st) ==
  /\ Len(st.cached) <= MaxCached
  /\ BagCardinality(st.loads) <= MaxLoads
  /\ Len(st.timers) <= MaxTimers

\* st: the peer's state, me: this.id, data: the descriptor, peerId: the
\* origin (Undef when the application calls addObject(data))
addObject(st, me, data, peerId) ==
  IF Has(st.objects, data.id) THEN st
  ELSE IF me = Undef THEN [st EXCEPT !.cached = Append(@, data)]
  ELSE IF data.parent # NoParent /\ ~Has(st.objects, data.parent)
    THEN [st EXCEPT !.timers = Append(@, <<data, peerId>>)]
  ELSE LET pid == IF peerId = Undef THEN me ELSE peerId
           d == IF data.owner = SelfTag THEN [data EXCEPT !.owner = me] ELSE data
       IN [st EXCEPT !.loads = @ (+) SetToBag({<<d, pid>>})]

\* _addCachedObjects that replays nothing
addCachedNone(st, me, i) == st

\* _addCachedObjects: addObject(object) for every cached descriptor
RECURSIVE addCachedFrom(_, _, _)
addCachedFrom(st, me, i) ==
  IF i > Len(st.cached) THEN st
  ELSE addCachedFrom(addObject(st, me, st.cached[i], Undef), me, i + 1)

\* a load that settles in microtasks (no network): before any other event
IsMicro(l) == l[1].type # "path"

Busy(p) == \E l \in BagToSet(loads[p]) : IsMicro(l)

\* object.object3D === this.localAvatar
IsLocalAvatar(obj) == obj.type = "Object3D" /\ obj.isAvatar /\ obj.parent = NoParent

(* ------------------------------------------------------------------ *)
(* removeObject and _removeFromParent                                   *)
(* ------------------------------------------------------------------ *)
\* _removeFromParent(object), the parent being in the registry
removeFromParent(reg, obj) ==
  LET parent == Get(reg, obj.parent)
      index == IndexOf(parent.children, obj.id)
  IN IF index # 0
       THEN Put(reg, [parent EXCEPT !.children = Splice(@, index)])
       ELSE reg

\* r = [objects, out, threw]: the registry, the messages broadcast so far
\* and whether a TypeError was thrown. removeLoop is the for...of loop over
\* the live array object.children, at index i.
RECURSIVE removeObject(_, _, _)
RECURSIVE removeLoop(_, _, _, _)
removeLoop(r, me, oid, i) ==
  IF r.threw \/ ~Has(r.objects, oid) THEN r
  ELSE LET children == Get(r.objects, oid).children
       IN IF i > Len(children) THEN r
          ELSE removeLoop(removeObject(r, me, children[i]), me, oid, i + 1)

\* removeObject without the test of object.owner
removeObjectAnyOwner(r, me, oid) ==
  IF ~Has(r.objects, oid) THEN r
  ELSE LET r1 == removeLoop(r, me, oid, 1)
       IN IF r1.threw \/ ~Has(r1.objects, oid) THEN r1
          ELSE LET obj == Get(r1.objects, oid)
               IN IF obj.parent # NoParent /\ ~Has(r1.objects, obj.parent)
                    THEN [r1 EXCEPT !.threw = TRUE]
                    ELSE LET reg == IF obj.parent # NoParent
                                      THEN removeFromParent(r1.objects, obj)
                                      ELSE r1.objects
                         IN [objects |-> Del(reg, oid),
                             out |-> Append(r1.out, RemoveMsg(oid, me)),
                             threw |-> FALSE]

removeObject(r, me, oid) ==
  IF ~Has(r.objects, oid) THEN r
  ELSE IF Get(r.objects, oid).owner # me THEN r
  ELSE LET r1 == removeLoop(r, me, oid, 1)
       IN IF r1.threw \/ ~Has(r1.objects, oid) THEN r1
          ELSE LET obj == Get(r1.objects, oid)
               IN IF obj.parent # NoParent /\ ~Has(r1.objects, obj.parent)
                    THEN [r1 EXCEPT !.threw = TRUE]
                    ELSE LET reg == IF obj.parent # NoParent
                                      THEN removeFromParent(r1.objects, obj)
                                      ELSE r1.objects
                         IN [objects |-> Del(reg, oid),
                             out |-> Append(r1.out, RemoveMsg(oid, me)),
                             threw |-> FALSE]

(* ------------------------------------------------------------------ *)
(* update and remove: messages received from peer peerId                *)
(* ------------------------------------------------------------------ *)
\* the descriptor update() hands to addObject: data.object
MsgData(m) ==
  [id |-> m.id, type |-> m.otype, isAvatar |-> m.isAvatar, parent |-> m.parent,
   owner |-> m.owner, lastUpdate |-> m.lastUpdate, animatedValues |-> <<>>]

\* update() that calls addObject for every unknown id, with a full
\* descriptor or not
updateAddsAlways(st, me, m, peerId, pooled, initiator) ==
  IF ~Has(st.objects, m.id)
    THEN [st |-> addObject(st, me, MsgData(m), peerId), threw |-> FALSE]
    ELSE [st |-> st, threw |-> FALSE]

\* st: the peer's state, pooled: this.remotePeers[peerId] exists,
\* initiator: its initiator flag. Gives the state and whether it threw.
\* updateOwned is update() after its first test.
updateOwned(st, me, m, peerId, pooled, initiator) ==
  IF ~Has(st.objects, m.id)
    THEN IF m.otype # ""
           THEN [st |-> addObject(st, me, MsgData(m), peerId), threw |-> FALSE]
           ELSE [st |-> st, threw |-> FALSE]
  ELSE LET obj == Get(st.objects, m.id)
       IN IF obj.owner # m.owner /\ ~pooled
            THEN [st |-> st, threw |-> TRUE]
            ELSE LET o1 == IF obj.owner # m.owner /\ ~initiator /\ m.firstUpdate
                             THEN [obj EXCEPT !.owner = m.owner,
                                              !.lastUpdate = m.lastUpdate]
                             ELSE obj
                     o2 == [o1 EXCEPT
                             !.position = IF m.position # NoArray THEN m.position ELSE @,
                             !.rotation = IF m.rotation # NoArray THEN m.rotation ELSE @,
                             !.scale = IF m.scale # NoArray THEN m.scale ELSE @,
                             !.animatedValues = Assign(@, m.animatedValues)]
                     o3 == IF m.owner # Undef /\ m.lastUpdate # Undef /\ ~m.firstUpdate
                             THEN [o2 EXCEPT !.owner = m.owner,
                                             !.lastUpdate = m.lastUpdate]
                             ELSE o2
                 IN [st |-> [st EXCEPT !.objects = Put(@, o3)], threw |-> FALSE]

\* update() without the test of data.object.owner against the sender
updateAnyOwner(st, me, m, peerId, pooled, initiator) ==
  updateOwned(st, me, m, peerId, pooled, initiator)

update(st, me, m, peerId, pooled, initiator) ==
  IF m.owner # peerId THEN [st |-> st, threw |-> FALSE]
  ELSE updateOwned(st, me, m, peerId, pooled, initiator)

RECURSIVE DelAll(_, _, _)
DelAll(reg, ids, i) ==
  IF i > Len(ids) THEN reg ELSE DelAll(Del(reg, ids[i]), ids, i + 1)

\* Gives the registry, the 'remove' notifications and whether it threw.
remove(reg, m, peerId) ==
  IF ~Has(reg, m.id) THEN [objects |-> reg, emits |-> <<>>, threw |-> FALSE]
  ELSE IF Get(reg, m.id).owner # peerId
    THEN [objects |-> reg, emits |-> <<>>, threw |-> FALSE]
  ELSE LET obj == [Get(reg, m.id) EXCEPT !.owner = NoOwner]
           r1 == DelAll(Put(reg, obj), obj.children, 1)
       IN IF ~Has(r1, m.id)
            THEN [objects |-> r1, emits |-> <<>>, threw |-> FALSE]
          ELSE IF obj.parent # NoParent /\ ~Has(r1, obj.parent)
            THEN [objects |-> r1, emits |-> <<>>, threw |-> TRUE]
          ELSE LET r2 == IF obj.parent # NoParent
                           THEN removeFromParent(r1, obj) ELSE r1
               IN [objects |-> Del(r2, m.id),
                   emits |-> IF obj.isAvatar /\ obj.parent = NoParent
                               THEN << <<"remove", m.id>> >> ELSE <<>>,
                   threw |-> FALSE]

(* ------------------------------------------------------------------ *)
(* _peerClose: the registry part                                        *)
(* ------------------------------------------------------------------ *)
\* the loop over Object.values(this.objects), a snapshot taken at entry;
\* r = [objects, emits]
\* the loop without the test of object.parent.id: 'remove' is raised for
\* every avatar deleted, with a parent or not
RECURSIVE peerCloseLoopAnyAvatar(_, _, _, _)
peerCloseLoopAnyAvatar(r, snap, peerId, i) ==
  IF i > Len(snap) THEN r
  ELSE LET obj == snap[i]
       IN IF obj.owner # peerId THEN peerCloseLoopAnyAvatar(r, snap, peerId, i + 1)
          ELSE IF obj.isAvatar
            THEN peerCloseLoopAnyAvatar(
                   [objects |-> Del(r.objects, obj.id),
                    emits |-> Append(r.emits, <<"remove", obj.id>>)],
                   snap, peerId, i + 1)
            ELSE peerCloseLoopAnyAvatar(
                   [r EXCEPT !.objects =
                      Put(@, [Get(@, obj.id) EXCEPT !.owner = NoOwner])],
                   snap, peerId, i + 1)

\* the loop that raises 'remove' for the peer's avatars and leaves the
\* registry as it is
RECURSIVE peerCloseLoopEmitOnly(_, _, _, _)
peerCloseLoopEmitOnly(r, snap, peerId, i) ==
  IF i > Len(snap) THEN r
  ELSE LET obj == snap[i]
       IN IF obj.owner = peerId /\ obj.isAvatar /\ obj.parent = NoParent
            THEN peerCloseLoopEmitOnly(
                   [r EXCEPT !.emits = Append(@, <<"remove", obj.id>>)],
                   snap, peerId, i + 1)
            ELSE peerCloseLoopEmitOnly(r, snap, peerId, i + 1)

RECURSIVE peerCloseLoop(_, _, _, _)
peerCloseLoop(r, snap, peerId, i) ==
  IF i > Len(snap) THEN r
  ELSE LET obj == snap[i]
       IN IF obj.owner # peerId THEN peerCloseLoop(r, snap, peerId, i + 1)
          ELSE IF obj.isAvatar
            THEN peerCloseLoop(
                   [objects |-> Del(r.objects, obj.id),
                    emits |-> IF obj.parent = NoParent
                                THEN Append(r.emits, <<"remove", obj.id>>)
                                ELSE r.emits],
                   snap, peerId, i + 1)
            ELSE peerCloseLoop(
                   [r EXCEPT !.objects =
                      Put(@, [Get(@, obj.id) EXCEPT !.owner = NoOwner])],
                   snap, peerId, i + 1)

peerClose(reg, peerId) ==
  peerCloseLoop([objects |-> reg, emits |-> <<>>], reg, peerId, 1)

(* ------------------------------------------------------------------ *)
(* History of concurrent grabs (no part of the program): "first" when a *)
(* peer has grabbed an unowned object and its broadcast is in flight,    *)
(* "both" when the other peer has grabbed the object too before that     *)
(* broadcast reached it, "one" and "settled" when one and both of the    *)
(* two broadcasts have been delivered.                                   *)
(* ------------------------------------------------------------------ *)
NoRace == [phase |-> "none", by |-> 0, obj |-> ""]

IsOwnerMsg(m, o, p) ==
  m.type = "update" /\ ~m.firstUpdate /\ m.id = o /\ m.owner = p /\ m.lastUpdate # Undef

InFlight(p, q, o) == \E i \in 1..Len(chan[p][q]) : IsOwnerMsg(chan[p][q][i], o, p)

\* the step is a grab of the unowned o by p that is broadcast to q
Grabbed(p, q, o) ==
  /\ Has(objects[p], o) /\ Has(objects'[p], o)
  /\ Get(objects[p], o).owner = NoOwner
  /\ Get(objects'[p], o).owner = p
  /\ Len(chan'[p][q]) = Len(chan[p][q]) + 1
  /\ IsOwnerMsg(chan'[p][q][Len(chan'[p][q])], o, p)

\* the step delivers to p the head of the channel from q
Delivered(p, q) ==
  /\ chan[q][p] # <<>>
  /\ chan'[q][p] = Tail(chan[q][p])
  /\ tps' = tps

\* the step delivers a grab broadcast for o
GrabDelivered(o) ==
  \E p, q \in Peers : Delivered(p, q) /\ IsOwnerMsg(Head(chan[q][p]), o, q)

RaceStep ==
  race' =
    IF tps' # tps THEN NoRace
    ELSE IF race.phase = "none"
      THEN IF \E p, q \in Peers, o \in ObjIds : p # q /\ Grabbed(p, q, o)
             THEN LET g == CHOOSE g \in Peers \X Peers \X ObjIds :
                             g[1] # g[2] /\ Grabbed(g[1], g[2], g[3])
                  IN [phase |-> "first", by |-> g[1], obj |-> g[3]]
             ELSE NoRace
    ELSE IF race.phase = "first"
      THEN IF \E q \in Peers :
                /\ q # race.by /\ Grabbed(q, race.by, race.obj)
                /\ InFlight(race.by, q, race.obj)
             THEN [race EXCEPT !.phase = "both"]
           ELSE IF objects' = objects /\ ~GrabDelivered(race.obj) THEN race
           ELSE NoRace
    ELSE IF race.phase = "both"
      THEN IF GrabDelivered(race.obj) THEN [race EXCEPT !.phase = "one"]
           ELSE IF objects' = objects THEN race
           ELSE NoRace
    ELSE IF race.phase = "one"
      THEN IF GrabDelivered(race.obj) THEN [race EXCEPT !.phase = "settled"]
           ELSE IF objects' = objects THEN race
           ELSE NoRace
    ELSE IF objects' = objects /\ chan' = chan THEN race
    ELSE NoRace

(* ------------------------------------------------------------------ *)
(* History of one id at one peer (no part of the program):              *)
(* <<"defer", p, o>> once a retry for o has been pending at p,          *)
(* <<"add", p, o>> once p has raised 'add' for o; both are forgotten    *)
(* when o leaves p's registry. <<"forged", p, o>>: p's _peerData has     *)
(* been given an update of o whose object.owner is not the sender.      *)
(* <<"first", p, o>>: p has sent a firstUpdate of o.                    *)
(* ------------------------------------------------------------------ *)
\* the messages the step puts on p's channel to q
Appended(p, q) ==
  IF Len(chan'[p][q]) > Len(chan[p][q])
    THEN SubSeq(chan'[p][q], Len(chan[p][q]) + 1, Len(chan'[p][q]))
    ELSE <<>>

\* how many of the messages are firstUpdates of o
FirstsFor(msgs, o) ==
  Cardinality({i \in 1..Len(msgs) :
                 msgs[i].type = "update" /\ msgs[i].firstUpdate /\ msgs[i].id = o})

\* the step hands the message at the head of q's channel to p's _peerData
Delivers(p, q) ==
  /\ chan[q][p] # <<>>
  /\ chan'[q][p] = Tail(chan[q][p])
  /\ \E i \in 1..Len(tps[p][q]) : tps[p][q][i].connected

\* ... and the message is an update of o that names another owner than q
Forged(p, q, o) ==
  /\ Delivers(p, q)
  /\ Head(chan[q][p]).type = "update"
  /\ Head(chan[q][p]).id = o
  /\ Head(chan[q][p]).owner # q

\* the step settles a load of p and raises 'add' for o
AddRaised(p, o) ==
  /\ BagCardinality(loads'[p]) < BagCardinality(loads[p])
  /\ \E i \in 1..Len(emitted') :
       emitted'[i] = [peer |-> p, by |-> "load", event |-> "add", id |-> o]

SeenStep ==
  seen' =
    {e \in seen : ~(Has(objects[e[2]], e[3]) /\ ~Has(objects'[e[2]], e[3]))}
      \cup {e \in {"defer"} \X Peers \X ObjIds :
              \E i \in 1..Len(timers'[e[2]]) : timers'[e[2]][i][1].id = e[3]}
      \cup {e \in {"add"} \X Peers \X ObjIds : AddRaised(e[2], e[3])}
      \cup {e \in {"forged"} \X Peers \X ObjIds :
              \E q \in Peers : Forged(e[2], q, e[3])}
      \cup {e \in {"first"} \X Peers \X ObjIds :
              \E q \in Peers : FirstsFor(Appended(e[2], q), e[3]) > 0}

HistStep == RaceStep /\ SeenStep

(* ------------------------------------------------------------------ *)
(* Initial state: every MultiUser just constructed                      *)
(* ------------------------------------------------------------------ *)
Init ==
  /\ id = [p \in Peers |-> Undef]
  /\ clock = [p \in Peers |-> 1]
  /\ objects = [p \in Peers |-> <<>>]
  /\ cachedObjects = [p \in Peers |-> <<>>]
  /\ loads = [p \in Peers |-> EmptyBag]
  /\ timers = [p \in Peers |-> <<>>]
  /\ tps = [p \in Peers |-> [q \in Peers |-> <<>>]]
  /\ pool = [p \in Peers |-> [q \in Peers |-> FALSE]]
  /\ chan = [p \in Peers |-> [q \in Peers |-> <<>>]]
  /\ emitted = <<>>
  /\ threw = FALSE
  /\ calls = [p \in Peers |-> 0]
  /\ race = NoRace
  /\ seen = {}

SetSt(p, st) ==
  /\ objects' = [objects EXCEPT ![p] = st.objects]
  /\ cachedObjects' = [cachedObjects EXCEPT ![p] = st.cached]
  /\ loads' = [loads EXCEPT ![p] = st.loads]
  /\ timers' = [timers EXCEPT ![p] = st.timers]

\* this.emit(event, ...) by handler `by` of peer p, for the events es
Emit(p, by, es) ==
  [i \in 1..Len(es) |-> [peer |-> p, by |-> by, event |-> es[i][1], id |-> es[i][2]]]

Quiet == emitted' = <<>> /\ threw' = FALSE

\* one more call of p's application
Call(p) == calls' = [calls EXCEPT ![p] = @ + 1]

(* ------------------------------------------------------------------ *)
(* The application's calls                                              *)
(* ------------------------------------------------------------------ *)
\* performance.now() moves on
Tick(p) ==
  /\ clock[p] < MaxClock
  /\ clock' = [clock EXCEPT ![p] = @ + 1]
  /\ UNCHANGED <<id, objects, cachedObjects, loads, timers, tps, pool, chan,
                 emitted, threw, calls>>

\* addObject(data) with data.owner 'self' or left out
AddObject(p, o, own) ==
  LET data == [id |-> o, type |-> Scene[o].type, isAvatar |-> Scene[o].isAvatar,
               parent |-> Scene[o].parent, owner |-> own, lastUpdate |-> Undef,
               animatedValues |-> Scene[o].animatedValues]
      st == addObject(PeerSt(p), id[p], data, Undef)
  IN /\ Call(p)
     /\ StOk(st)
     /\ SetSt(p, st)
     /\ Quiet
     /\ UNCHANGED <<id, clock, tps, pool, chan>>

\* the callback of _loadObject(data).then in addObject, for the pending load l
LoadResolve(p, l) ==
  LET data == l[1]
      peerId == l[2]
      me == id[p]
      now == clock[p]
      reg == objects[p]
      first == IF data.isAvatar /\ data.parent = NoParent
                 THEN FirstUpdateMsg(data.id, "path", TRUE, NoParent, me, now)
                 ELSE FirstUpdateMsg(data.id, data.type, data.isAvatar,
                                     data.parent, me, now)
      out == IF peerId = me THEN <<first>> ELSE <<>>
      es == IF peerId # me /\ data.parent = NoParent
              THEN << <<"add", data.id>> >> ELSE <<>>
      reg1 == IF data.parent # NoParent /\ Has(reg, data.parent)
                THEN Put(reg, [Get(reg, data.parent) EXCEPT
                                 !.children = Append(@, data.id)])
                ELSE reg
      rec == [id |-> data.id, type |-> data.type, isAvatar |-> data.isAvatar,
              parent |-> data.parent, children |-> <<>>,
              owner |-> IF data.owner # Undef THEN data.owner ELSE NoOwner,
              lastUpdate |-> IF data.lastUpdate # Undef /\ data.lastUpdate # 0
                               THEN data.lastUpdate ELSE now,
              animatedValues |-> [k \in Range(data.animatedValues) |-> Undef],
              position |-> <<>>, rotation |-> <<>>, scale |-> <<>>]
  IN /\ l \in BagToSet(loads[p])
     /\ data.type \in KnownTypes
     /\ IsMicro(l) \/ ~Busy(p)
     /\ loads' = [loads EXCEPT ![p] = @ (-) SetToBag({l})]
     /\ IF data.isAvatar /\ peerId # me /\ ~pool[p][peerId]
          THEN \* this.remotePeers[peerId].audioHelper throws; .catch emits 'error'
               /\ emitted' = Emit(p, "load", << <<"error", data.id>> >>)
               /\ UNCHANGED <<objects, chan>>
          ELSE /\ ChanOk(broadcast(p, out))
               /\ chan' = [chan EXCEPT ![p] = broadcast(p, out)]
               /\ objects' = [objects EXCEPT ![p] = Put(reg1, rec)]
               /\ emitted' = Emit(p, "load", es)
     /\ threw' = FALSE
     /\ UNCHANGED <<id, clock, cachedObjects, timers, tps, pool, calls>>

\* the load callback with the registry write moved before the failure
LoadRejectStored(p, l) ==
  /\ l \in BagToSet(loads[p])
  /\ l[1].type # "Object3D"
  /\ IsMicro(l) \/ ~Busy(p)
  /\ loads' = [loads EXCEPT ![p] = @ (-) SetToBag({l})]
  /\ objects' = [objects EXCEPT ![p] =
                   Put(@, [id |-> l[1].id, type |-> l[1].type,
                           isAvatar |-> l[1].isAvatar, parent |-> l[1].parent,
                           children |-> <<>>, owner |-> NoOwner,
                           lastUpdate |-> clock[p], animatedValues |-> NoValues,
                           position |-> <<>>, rotation |-> <<>>, scale |-> <<>>])]
  /\ emitted' = Emit(p, "load", << <<"error", l[1].id>> >>)
  /\ threw' = FALSE
  /\ UNCHANGED <<id, clock, cachedObjects, timers, tps, pool, chan, calls>>

\* _loadObject rejects: a failed path load, no object with the name, a
\* type without a case
LoadReject(p, l) ==
  /\ l \in BagToSet(loads[p])
  /\ l[1].type # "Object3D"
  /\ IsMicro(l) \/ ~Busy(p)
  /\ loads' = [loads EXCEPT ![p] = @ (-) SetToBag({l})]
  /\ emitted' = Emit(p, "load", << <<"error", l[1].id>> >>)
  /\ threw' = FALSE
  /\ UNCHANGED <<id, clock, objects, cachedObjects, timers, tps, pool, chan, calls>>

\* the setTimeout callback of addObject: this.addObject(data, peerId)
TimerFire(p) ==
  /\ timers[p] # <<>>
  /\ ~Busy(p)
  /\ LET t == Head(timers[p])
         st == addObject([PeerSt(p) EXCEPT !.timers = Tail(@)], id[p], t[1], t[2])
     IN /\ StOk(st)
        /\ SetSt(p, st)
  /\ Quiet
  /\ UNCHANGED <<id, clock, tps, pool, chan, calls>>

\* removeObject(id)
RemoveObject(p, o) ==
  LET r == removeObject([objects |-> objects[p], out |-> <<>>, threw |-> FALSE],
                        id[p], o)
  IN /\ Call(p)
     /\ ChanOk(broadcast(p, r.out))
     /\ objects' = [objects EXCEPT ![p] = r.objects]
     /\ chan' = [chan EXCEPT ![p] = broadcast(p, r.out)]
     /\ emitted' = <<>>
     /\ threw' = r.threw
     /\ UNCHANGED <<id, clock, cachedObjects, loads, timers, tps, pool>>

\* grabOwnership without the test of objectData.isAvatar
grabOwnershipOfAvatar(reg, me, now, o) ==
  IF Has(reg, o) /\ Get(reg, o).owner # me /\ Get(reg, o).lastUpdate < now
    THEN [objects |-> Put(reg, [Get(reg, o) EXCEPT !.owner = me, !.lastUpdate = now]),
          out |-> <<OwnerMsg(o, me, now)>>]
    ELSE [objects |-> reg, out |-> <<>>]

\* grabOwnership(object), object being the Object3D of the object with id o
\* and now the reading of performance.now(): the registry and the broadcast
grabOwnership(reg, me, now, o) ==
  IF /\ Has(reg, o)
     /\ ~Get(reg, o).isAvatar
     /\ Get(reg, o).owner # me
     /\ Get(reg, o).lastUpdate < now
    THEN [objects |-> Put(reg, [Get(reg, o) EXCEPT !.owner = me, !.lastUpdate = now]),
          out |-> <<OwnerMsg(o, me, now)>>]
    ELSE [objects |-> reg, out |-> <<>>]

GrabOwnership(p, o) ==
  LET g == grabOwnership(objects[p], id[p], clock[p], o)
  IN /\ Call(p)
     /\ ChanOk(broadcast(p, g.out))
     /\ objects' = [objects EXCEPT ![p] = g.objects]
     /\ chan' = [chan EXCEPT ![p] = broadcast(p, g.out)]
     /\ Quiet
     /\ UNCHANGED <<id, clock, cachedObjects, loads, timers, tps, pool>>

(* ------------------------------------------------------------------ *)
(* animate: the per-frame tick                                          *)
(* ------------------------------------------------------------------ *)
\* the transform components and animated values the owner's renderable
\* has: what sendData reads from object.object3D
Pose == 1

\* for (i = 0; i < 3; i++) if (typeof a[i] !== 'number') a[i] = 0
Fill3(a) ==
  [i \in 1..(IF Len(a) > 3 THEN Len(a) ELSE 3) |-> IF i <= Len(a) THEN a[i] ELSE 0]

\* the loop body for an object not owned locally: position[i] and
\* rotation[i] are defaulted; scale[i] is defaulted only if rotation[i],
\* which has just been defaulted, is not a number
defaults(obj) ==
  LET position == Fill3(obj.position)
      rotation == Fill3(obj.rotation)
      scale == [i \in 1..Len(obj.scale) |-> obj.scale[i]]
  IN [obj EXCEPT !.position = position, !.rotation = rotation, !.scale = scale]

\* sendData(object): the payload
sendData(obj) ==
  TransformMsg(obj.id, obj.owner, <<Pose, Pose, Pose>>,
               [k \in DOMAIN obj.animatedValues |-> Pose])

\* animate with sendData called for every object
RECURSIVE animateAll(_, _, _)
animateAll(r, me, i) ==
  IF i > Len(r.objects) THEN r
  ELSE animateAll([r EXCEPT !.out = Append(@, sendData(r.objects[i]))], me, i + 1)

\* animate(): the loop over Object.values(this.objects) from index i;
\* r = [objects, out]
RECURSIVE animate(_, _, _)
animate(r, me, i) ==
  IF i > Len(r.objects) THEN r
  ELSE LET obj == r.objects[i]
       IN IF obj.owner # me
            THEN animate([r EXCEPT !.objects[i] = defaults(obj)], me, i + 1)
            ELSE animate([r EXCEPT !.out = Append(@, sendData(obj))], me, i + 1)

Animate(p) ==
  LET r == animate([objects |-> objects[p], out |-> <<>>], id[p], 1)
  IN /\ Call(p)
     /\ ChanOk(broadcast(p, r.out))
     /\ objects' = [objects EXCEPT ![p] = r.objects]
     /\ chan' = [chan EXCEPT ![p] = broadcast(p, r.out)]
     /\ Quiet
     /\ UNCHANGED <<id, clock, cachedObjects, loads, timers, tps, pool>>

(* ------------------------------------------------------------------ *)
(* _socketMessage: the relay's messages                                 *)
(* ------------------------------------------------------------------ *)
\* {type: 'open', from: p}
SocketOpen(p) ==
  /\ id[p] = Undef
  /\ LET st == addCachedFrom(PeerSt(p), p, 1)
     IN /\ StOk(st)
        /\ SetSt(p, st)
  /\ id' = [id EXCEPT ![p] = p]
  /\ Quiet
  /\ UNCHANGED <<clock, tps, pool, chan, calls>>

\* createPeer(initiator, q, stream), stored in this.remotePeers[q]
createPeer(p, q, initiator) ==
  /\ Len(tps[p][q]) < MaxTp
  /\ tps' = [tps EXCEPT ![p][q] =
               Append(@, [initiator |-> initiator, connected |-> FALSE])]
  /\ pool' = [pool EXCEPT ![p][q] = TRUE]

\* {type: 'connected', from: q}
SocketConnected(p, q) ==
  /\ p # q /\ id[p] # Undef /\ id[q] # Undef
  /\ ~Busy(p)
  /\ IF ~pool[p][q] THEN createPeer(p, q, TRUE) ELSE UNCHANGED <<tps, pool>>
  /\ Quiet
  /\ UNCHANGED <<id, clock, objects, cachedObjects, loads, timers, chan, calls>>

\* 'signal' that creates a Transport Peer whether the pool has one or not
SocketSignalAlways(p, q) ==
  /\ p # q /\ id[p] # Undef /\ tps[q][p] # <<>>
  /\ ~Busy(p)
  /\ createPeer(p, q, FALSE)
  /\ Quiet
  /\ UNCHANGED <<id, clock, objects, cachedObjects, loads, timers, chan, calls>>

\* {type: 'signal', from: q}: q holds a Transport Peer for p that signals
SocketSignal(p, q) ==
  /\ p # q /\ id[p] # Undef /\ tps[q][p] # <<>>
  /\ ~Busy(p)
  /\ IF ~pool[p][q] THEN createPeer(p, q, FALSE) ELSE UNCHANGED <<tps, pool>>
  /\ Quiet
  /\ UNCHANGED <<id, clock, objects, cachedObjects, loads, timers, chan, calls>>

\* {type: 'disconnected', from: q}
SocketDisconnected(p, q) ==
  /\ p # q /\ id[p] # Undef /\ id[q] # Undef
  /\ ~Busy(p)
  /\ pool' = [pool EXCEPT ![p][q] = FALSE]
  /\ Quiet
  /\ UNCHANGED <<id, clock, objects, cachedObjects, loads, timers, tps, chan, calls>>

(* ------------------------------------------------------------------ *)
(* The Transport Peer's events: connect, data, close                    *)
(* ------------------------------------------------------------------ *)
\* _peerConnect's loop without the test of object.owner
RECURSIVE connectPushAll(_, _, _)
connectPushAll(reg, me, i) ==
  IF i > Len(reg) THEN <<>>
  ELSE LET obj == reg[i]
       IN <<FirstUpdateMsg(obj.id, obj.type, obj.isAvatar, obj.parent,
                           obj.owner, obj.lastUpdate)>>
            \o connectPushAll(reg, me, i + 1)

\* the firstUpdate messages _peerConnect sends, for the objects from index i
RECURSIVE connectPush(_, _, _)
connectPush(reg, me, i) ==
  IF i > Len(reg) THEN <<>>
  ELSE LET obj == reg[i]
           m == IF IsLocalAvatar(obj)
                  THEN FirstUpdateMsg(obj.id, "path", TRUE, NoParent,
                                      obj.owner, obj.lastUpdate)
                  ELSE FirstUpdateMsg(obj.id, obj.type, obj.isAvatar, obj.parent,
                                      obj.owner, obj.lastUpdate)
       IN IF obj.owner = me THEN <<m>> \o connectPush(reg, me, i + 1)
          ELSE connectPush(reg, me, i + 1)

\* _peerConnect on the i-th Transport Peer of p for q
PeerConnect(p, q, i) ==
  /\ i \in 1..Len(tps[p][q])
  /\ ~tps[p][q][i].connected
  /\ tps[q][p] # <<>>
  /\ ~Busy(p)
  /\ LET out == Send(p, q, connectPush(objects[p], id[p], 1))
     IN /\ Len(out) <= MaxChan
        /\ chan' = [chan EXCEPT ![p][q] = out]
  /\ tps' = [tps EXCEPT ![p][q][i].connected = TRUE]
  /\ Quiet
  /\ UNCHANGED <<id, clock, objects, cachedObjects, loads, timers, pool, calls>>

\* _peerData on a connected Transport Peer of p for q: update or remove
PeerData(p, q) ==
  /\ chan[q][p] # <<>>
  /\ \E i \in 1..Len(tps[p][q]) : tps[p][q][i].connected
  /\ ~Busy(p)
  /\ LET m == Head(chan[q][p])
         pooled == pool[p][q]
         initiator == pooled /\ PoolPeer(p, q).initiator
     IN IF m.type = "update"
          THEN LET u == update(PeerSt(p), id[p], m, q, pooled, initiator)
               IN /\ StOk(u.st)
                  /\ SetSt(p, u.st)
                  /\ emitted' = <<>>
                  /\ threw' = u.threw
          ELSE LET r == remove(objects[p], m, q)
               IN /\ objects' = [objects EXCEPT ![p] = r.objects]
                  /\ emitted' = Emit(p, "remove", r.emits)
                  /\ threw' = r.threw
                  /\ UNCHANGED <<cachedObjects, loads, timers>>
  /\ chan' = [chan EXCEPT ![q][p] = Tail(@)]
  /\ UNCHANGED <<id, clock, tps, pool, calls>>

\* _peerClose on the i-th Transport Peer of p for q
PeerClose(p, q, i) ==
  /\ i \in 1..Len(tps[p][q])
  /\ ~Busy(p)
  /\ LET r == peerClose(objects[p], q)
         rest == Splice(tps[p][q], i)
     IN /\ tps' = [tps EXCEPT ![p][q] = rest]
        /\ objects' = [objects EXCEPT ![p] = r.objects]
        /\ chan' = [chan EXCEPT ![q][p] = IF rest = <<>> THEN <<>> ELSE @]
        /\ emitted' = Emit(p, "close", r.emits)
  /\ pool' = [pool EXCEPT ![p][q] = FALSE]
  /\ threw' = FALSE
  /\ UNCHANGED <<id, clock, cachedObjects, loads, timers, calls>>

\* the firstUpdate that announces the scene's object o as owned by w
Announce(o, w, lu) ==
  IF Scene[o].isAvatar /\ Scene[o].parent = NoParent
    THEN FirstUpdateMsg(o, "path", TRUE, NoParent, w, lu)
    ELSE FirstUpdateMsg(o, Scene[o].type, Scene[o].isAvatar, Scene[o].parent, w, lu)

\* The messages about "prop" a remote client q may put on its channel: the
\* announcement, ownership and transform updates, each naming either peer
\* as the owner, and the remove.
InMsgs(q) ==
  {Announce("prop", w, MaxClock) : w \in Peers}
    \cup {OwnerMsg("prop", w, MaxClock) : w \in Peers}
    \cup {TransformMsg("prop", w, <<1, 1, 1>>, [k \in {"visible"} |-> 1]) : w \in Peers}
    \cup {RemoveMsg("prop", q)}

\* The messages about its avatar and the avatar's descendants q may send.
TreeMsgs(q) ==
  {Announce(o, q, MaxClock) : o \in {"av", "hat", "gem"}}
    \cup {RemoveMsg(o, q) : o \in {"av", "hat", "gem"}}

\* the client of q sends m to p over its connected Transport Peer; p's
\* _peerData receives whatever the remote client sends
RemoteSend(q, p, m) ==
  /\ p # q
  /\ \E i \in 1..Len(tps[q][p]) : tps[q][p][i].connected
  /\ chan[q][p] = <<>>
  /\ Call(q)
  /\ chan' = [chan EXCEPT ![q][p] = Send(q, p, <<m>>)]
  /\ Quiet
  /\ UNCHANGED <<id, clock, objects, cachedObjects, loads, timers, tps, pool>>

(* ------------------------------------------------------------------ *)
(* Scenario "shared": both peers add the shared object "prop" (no owner *)
(* given), the relay connects them (peer 1 initiates), both grab the    *)
(* object; connections close and the relay reports 'disconnected'.      *)
(* ------------------------------------------------------------------ *)
\* p's application may make one more call
MayCall(p, n) == calls[p] < n /\ id[p] # Undef

\* the relay's message makes p create no second Transport Peer for q
Single(p, q) == pool[p][q] \/ tps[p][q] = <<>>

Next ==
  \E p \in Peers :
    \/ Tick(p) /\ HistStep
    \/ SocketOpen(p) /\ HistStep
    \/ MayCall(p, MaxCalls - 1) /\ AddObject(p, "prop", Undef) /\ HistStep
    \/ \E l \in BagToSet(loads[p]) : LoadResolve(p, l) /\ HistStep
    \/ MayCall(p, MaxCalls - 1) /\ GrabOwnership(p, "prop") /\ HistStep
    \/ p = 1 /\ Single(p, 2) /\ SocketConnected(p, 2) /\ HistStep
    \/ \E q \in Peers : Single(p, q) /\ SocketSignal(p, q) /\ HistStep
    \/ p = 1 /\ SocketDisconnected(p, 2) /\ HistStep
    \/ \E q \in Peers, i \in 1..MaxTp : PeerConnect(p, q, i) /\ HistStep
    \/ \E q \in Peers : PeerData(p, q) /\ HistStep
    \/ \E q \in Peers, i \in 1..MaxTp : PeerClose(p, q, i) /\ HistStep

Spec == Init /\ [][Next]_vars

(* ------------------------------------------------------------------ *)
(* Scenario "tree": peer 1 adds its avatar, the avatar's hand and a     *)
(* loaded child of the avatar, also before the relay's 'open', and      *)
(* removes them. No other peer is around.                               *)
(* ------------------------------------------------------------------ *)
NextTree ==
  \/ SocketOpen(1) /\ HistStep
  \/ \E o \in {"av", "hl", "hat"} :
       calls[1] < MaxCalls + 1 /\ AddObject(1, o, SelfTag) /\ HistStep
  \/ \E l \in BagToSet(loads[1]) : LoadResolve(1, l) /\ HistStep
  \/ \E l \in BagToSet(loads[1]) : LoadReject(1, l) /\ HistStep
  \/ TimerFire(1) /\ HistStep
  \/ \E o \in {"av", "hl", "hat"} :
       MayCall(1, MaxCalls + 1) /\ RemoveObject(1, o) /\ HistStep

SpecTree == Init /\ [][NextTree]_vars

(* ------------------------------------------------------------------ *)
(* Scenario "defer": peer 1 is given the descriptors of the avatar's    *)
(* children, each possibly more than once, only while the avatar is not *)
(* in its registry; the avatar is added at some point.                  *)
(* ------------------------------------------------------------------ *)
NextDefer ==
  \/ SocketOpen(1) /\ HistStep
  \/ \E c \in {"hl", "hat"} :
       /\ calls[1] < MaxCalls + 1 /\ ~Has(objects[1], "av")
       /\ AddObject(1, c, SelfTag) /\ HistStep
  \/ calls[1] < MaxCalls + 1 /\ AddObject(1, "av", SelfTag) /\ HistStep
  \/ \E l \in BagToSet(loads[1]) : LoadResolve(1, l) /\ HistStep
  \/ TimerFire(1) /\ HistStep

SpecDefer == Init /\ [][NextDefer]_vars

(* ------------------------------------------------------------------ *)
(* Scenario "visit": peer 1 adds its avatar with the two children,      *)
(* each once; peer 2 receives them and grabs; peer 2's connection to 1  *)
(* closes.                                                              *)
(* ------------------------------------------------------------------ *)
\* p has not been given o so far
NotYet(p, o) ==
  /\ ~Has(objects[p], o)
  /\ \A l \in BagToSet(loads[p]) : l[1].id # o
  /\ \A i \in 1..Len(timers[p]) : timers[p][i][1].id # o

NextVisit ==
  \/ Tick(2) /\ HistStep
  \/ \E p \in Peers : SocketOpen(p) /\ HistStep
  \/ \E o \in {"av", "hl", "hat"} :
       MayCall(1, MaxCalls) /\ NotYet(1, o) /\ AddObject(1, o, SelfTag) /\ HistStep
  \/ \E p \in Peers : \E l \in BagToSet(loads[p]) : LoadResolve(p, l) /\ HistStep
  \/ \E p \in Peers : TimerFire(p) /\ HistStep
  \/ \E o \in {"av", "hat"} :
       MayCall(2, MaxCalls - 1) /\ GrabOwnership(2, o) /\ HistStep
  \/ Single(1, 2) /\ SocketConnected(1, 2) /\ HistStep
  \/ \E p, q \in Peers : Single(p, q) /\ SocketSignal(p, q) /\ HistStep
  \/ \E p, q \in Peers, i \in 1..MaxTp : PeerConnect(p, q, i) /\ HistStep
  \/ \E p, q \in Peers : PeerData(p, q) /\ HistStep
  \/ \E i \in 1..MaxTp : PeerClose(2, 1, i) /\ HistStep

SpecVisit == Init /\ [][NextVisit]_vars

(* ------------------------------------------------------------------ *)
(* Scenario "inbound": peer 1 keeps the shared object "prop" and is     *)
(* connected to peer 2 (either side initiates), whose client sends it   *)
(* announcements, updates and removes of "prop"; peer 1 calls           *)
(* removeObject; the relay may report peer 2 'disconnected'.            *)
(* ------------------------------------------------------------------ *)
NextInbound ==
  \/ \E p \in Peers : SocketOpen(p) /\ HistStep
  \/ \E own \in {Undef, SelfTag} :
       MayCall(1, MaxCalls - 1) /\ NotYet(1, "prop") /\ AddObject(1, "prop", own)
         /\ HistStep
  \/ MayCall(1, MaxCalls - 1) /\ RemoveObject(1, "prop") /\ HistStep
  \/ \E l \in BagToSet(loads[1]) : LoadResolve(1, l) /\ HistStep
  \/ \E l \in BagToSet(loads[1]) : LoadReject(1, l) /\ HistStep
  \/ \E p, q \in Peers :
       tps[p][q] = <<>> /\ tps[q][p] = <<>> /\ SocketConnected(p, q) /\ HistStep
  \/ \E p, q \in Peers : Single(p, q) /\ SocketSignal(p, q) /\ HistStep
  \/ \E p, q \in Peers, i \in 1..MaxTp : PeerConnect(p, q, i) /\ HistStep
  \/ SocketDisconnected(1, 2) /\ HistStep
  \/ \E m \in InMsgs(2) :
       MayCall(2, MaxCalls) /\ RemoteSend(2, 1, m) /\ HistStep
  \/ PeerData(1, 2) /\ HistStep

SpecInbound == Init /\ [][NextInbound]_vars

(* ------------------------------------------------------------------ *)
(* Scenario "remote tree": peer 2 initiates the connection to peer 1    *)
(* and its client announces its avatar, the avatar's child and          *)
(* grandchild, each once, and removes them; peer 1 calls removeObject.  *)
(* ------------------------------------------------------------------ *)
NextRemote ==
  \/ \E p \in Peers : SocketOpen(p) /\ HistStep
  \/ \E l \in BagToSet(loads[1]) : LoadResolve(1, l) /\ HistStep
  \/ TimerFire(1) /\ HistStep
  \/ Single(2, 1) /\ SocketConnected(2, 1) /\ HistStep
  \/ Single(1, 2) /\ SocketSignal(1, 2) /\ HistStep
  \/ \E p, q \in Peers, i \in 1..MaxTp : PeerConnect(p, q, i) /\ HistStep
  \/ \E m \in TreeMsgs(2) :
       /\ MayCall(2, MaxCalls + 1)
       /\ m.firstUpdate => NotYet(1, m.id)
       /\ RemoteSend(2, 1, m) /\ HistStep
  \/ \E o \in {"av", "hat"} :
       MayCall(1, MaxCalls - 2) /\ RemoveObject(1, o) /\ HistStep
  \/ PeerData(1, 2) /\ HistStep

SpecRemote == Init /\ [][NextRemote]_vars

(* ------------------------------------------------------------------ *)
(* Scenario "join": peer 1 adds its avatar, the avatar's child "hat"    *)
(* and the root "prop" (no owner given), each once, before or after the *)
(* relay connects it to peer 2 (peer 1 initiates); peer 2 receives.     *)
(* Every load succeeds and the connection stays.                        *)
(* ------------------------------------------------------------------ *)
NextJoin ==
  \/ \E p \in Peers : SocketOpen(p) /\ HistStep
  \/ \E o \in {"av", "hat"} :
       MayCall(1, MaxCalls) /\ NotYet(1, o) /\ AddObject(1, o, SelfTag) /\ HistStep
  \/ MayCall(1, MaxCalls) /\ NotYet(1, "prop") /\ AddObject(1, "prop", Undef)
       /\ HistStep
  \/ \E p \in Peers : \E l \in BagToSet(loads[p]) : LoadResolve(p, l) /\ HistStep
  \/ \E p \in Peers : TimerFire(p) /\ HistStep
  \/ Single(1, 2) /\ SocketConnected(1, 2) /\ HistStep
  \/ \E p, q \in Peers : Single(p, q) /\ SocketSignal(p, q) /\ HistStep
  \/ \E p, q \in Peers, i \in 1..MaxTp : PeerConnect(p, q, i) /\ HistStep
  \/ \E p, q \in Peers : PeerData(p, q) /\ HistStep

SpecJoin == Init /\ [][NextJoin]_vars

(* ------------------------------------------------------------------ *)
(* Scenario "rejoin": as "join", and peer 2 grabs "hat"; the relay      *)
(* reports peer 1 'disconnected' to peer 2, whose next Transport Peer   *)
(* for peer 1 connects while peer 2 holds peer 1's objects.             *)
(* ------------------------------------------------------------------ *)
NextRejoin ==
  \/ Tick(2) /\ HistStep
  \/ \E p \in Peers : SocketOpen(p) /\ HistStep
  \/ \E o \in {"av", "hat"} :
       MayCall(1, MaxCalls) /\ NotYet(1, o) /\ AddObject(1, o, SelfTag) /\ HistStep
  \/ MayCall(1, MaxCalls) /\ NotYet(1, "prop") /\ AddObject(1, "prop", Undef)
       /\ HistStep
  \/ \E p \in Peers : \E l \in BagToSet(loads[p]) : LoadResolve(p, l) /\ HistStep
  \/ \E p \in Peers : TimerFire(p) /\ HistStep
  \/ MayCall(2, MaxCalls - 2) /\ GrabOwnership(2, "hat") /\ HistStep
  \/ Single(1, 2) /\ SocketConnected(1, 2) /\ HistStep
  \/ Single(1, 2) /\ SocketSignal(1, 2) /\ HistStep
  \/ SocketSignal(2, 1) /\ HistStep
  \/ SocketDisconnected(2, 1) /\ HistStep
  \/ \E p, q \in Peers, i \in 1..MaxTp : PeerConnect(p, q, i) /\ HistStep
  \/ \E p, q \in Peers : PeerData(p, q) /\ HistStep

SpecRejoin == Init /\ [][NextRejoin]_vars

(* ------------------------------------------------------------------ *)
(* Scenario "reconnect": peer 2 keeps the shared object "prop" and is   *)
(* connected to peer 1; the relay reports peer 1 'disconnected' to      *)
(* peer 2, a later 'signal' from peer 1 gives peer 2 a new Transport    *)
(* Peer, and the Transport Peers of peer 2 close in any order; peer 2   *)
(* grabs "prop", which broadcasts.                                      *)
(* ------------------------------------------------------------------ *)
NextReconnect ==
  \/ Tick(2) /\ HistStep
  \/ \E p \in Peers : SocketOpen(p) /\ HistStep
  \/ MayCall(2, MaxCalls - 2) /\ NotYet(2, "prop") /\ AddObject(2, "prop", Undef)
       /\ HistStep
  \/ \E l \in BagToSet(loads[2]) : LoadResolve(2, l) /\ HistStep
  \/ MayCall(2, MaxCalls) /\ GrabOwnership(2, "prop") /\ HistStep
  \/ Single(1, 2) /\ SocketConnected(1, 2) /\ HistStep
  \/ SocketSignal(2, 1) /\ HistStep
  \/ SocketDisconnected(2, 1) /\ HistStep
  \/ \E p, q \in Peers, i \in 1..MaxTp : PeerConnect(p, q, i) /\ HistStep
  \/ PeerData(1, 2) /\ HistStep
  \/ \E i \in 1..MaxTp : PeerClose(2, 1, i) /\ HistStep

SpecReconnect == Init /\ [][NextReconnect]_vars

(* ------------------------------------------------------------------ *)
(* Scenario "failing loads": as "join", and peer 1 also adds "box",     *)
(* whose type is unknown; any load of a path or a name may fail, at     *)
(* either peer.                                                         *)
(* ------------------------------------------------------------------ *)
NextFail ==
  \/ \E p \in Peers : SocketOpen(p) /\ HistStep
  \/ \E o \in {"av", "hat", "box"} :
       MayCall(1, MaxCalls) /\ NotYet(1, o) /\ AddObject(1, o, SelfTag) /\ HistStep
  \/ MayCall(1, MaxCalls) /\ NotYet(1, "prop") /\ AddObject(1, "prop", Undef)
       /\ HistStep
  \/ \E p \in Peers : \E l \in BagToSet(loads[p]) : LoadResolve(p, l) /\ HistStep
  \/ \E p \in Peers : \E l \in BagToSet(loads[p]) : LoadReject(p, l) /\ HistStep
  \/ \E p \in Peers : TimerFire(p) /\ HistStep
  \/ Single(1, 2) /\ SocketConnected(1, 2) /\ HistStep
  \/ \E p, q \in Peers : Single(p, q) /\ SocketSignal(p, q) /\ HistStep
  \/ \E p, q \in Peers, i \in 1..MaxTp : PeerConnect(p, q, i) /\ HistStep
  \/ \E p, q \in Peers : PeerData(p, q) /\ HistStep

SpecFail == Init /\ [][NextFail]_vars

(* ------------------------------------------------------------------ *)
(* Scenario "frames": as "join", and both peers' applications call      *)
(* animate.                                                             *)
(* ------------------------------------------------------------------ *)
NextFrames ==
  \/ \E p \in Peers : SocketOpen(p) /\ HistStep
  \/ \E o \in {"av", "hat"} :
       MayCall(1, MaxCalls) /\ NotYet(1, o) /\ AddObject(1, o, SelfTag) /\ HistStep
  \/ MayCall(1, MaxCalls) /\ NotYet(1, "prop") /\ AddObject(1, "prop", Undef)
       /\ HistStep
  \/ \E p \in Peers : \E l \in BagToSet(loads[p]) : LoadResolve(p, l) /\ HistStep
  \/ \E p \in Peers : TimerFire(p) /\ HistStep
  \/ \E p \in Peers : MayCall(p, MaxCalls) /\ Animate(p) /\ HistStep
  \/ Single(1, 2) /\ SocketConnected(1, 2) /\ HistStep
  \/ \E p, q \in Peers : Single(p, q) /\ SocketSignal(p, q) /\ HistStep
  \/ \E p, q \in Peers, i \in 1..MaxTp : PeerConnect(p, q, i) /\ HistStep
  \/ \E p, q \in Peers : PeerData(p, q) /\ HistStep

SpecFrames == Init /\ [][NextFrames]_vars

(* ------------------------------------------------------------------ *)
(* Properties                                                           *)
(* ------------------------------------------------------------------ *)
Owner(p, o) == Get(objects[p], o).owner

LastUpdate(p, o) == Get(objects[p], o).lastUpdate

\* the same in the state a step leads to
OwnerAfter(p, o) == Get(objects'[p], o).owner

LastUpdateAfter(p, o) == Get(objects'[p], o).lastUpdate

\* C1: when two connected peers have each grabbed the same unowned object
\* before the other's ownership broadcast reached them, then once both
\* broadcasts are delivered both registries record the same owner for the
\* object, and that owner is one of the two peers.
C1_ConcurrentGrabsConverge ==
  race.phase = "settled" =>
    \A p, q \in Peers :
      /\ Has(objects[p], race.obj) /\ Has(objects[q], race.obj)
      /\ Owner(p, race.obj) = Owner(q, race.obj)
      /\ Owner(p, race.obj) \in Peers

\* p and q hold connected Transport Peers for each other
Connected(p, q) ==
  /\ pool[p][q] /\ PoolPeer(p, q).connected
  /\ pool[q][p] /\ PoolPeer(q, p).connected

\* C2: at every instant, for every object id, there are no two peers,
\* connected to each other, whose registries each record that peer itself
\* as the owner of the object.
C2_AtMostOneOwner ==
  \A o \in ObjIds : \A p, q \in Peers :
    (p # q /\ Connected(p, q) /\ Has(objects[p], o) /\ Has(objects[q], o))
      => ~(Owner(p, o) = p /\ Owner(q, o) = q)

\* C3: an object's lastUpdate never decreases in a registry, and an update
\* message without firstUpdate whose object.lastUpdate is older than or
\* equal to the lastUpdate held locally leaves owner and lastUpdate as they
\* are.
C3_StaleUpdateDiscarded ==
  [][\A p, q \in Peers :
       LET m == Head(chan[q][p])
       IN (/\ Delivered(p, q)
           /\ m.type = "update" /\ ~m.firstUpdate /\ m.lastUpdate # Undef
           /\ Has(objects[p], m.id))
          => /\ Has(objects'[p], m.id)
             /\ LastUpdateAfter(p, m.id) >= LastUpdate(p, m.id)
             /\ (m.lastUpdate <= LastUpdate(p, m.id)
                   => /\ OwnerAfter(p, m.id) = Owner(p, m.id)
                      /\ LastUpdateAfter(p, m.id) = LastUpdate(p, m.id))]_vars

\* the ids reached from the set S by n steps along parent and children
RECURSIVE Below(_, _, _)
Below(reg, S, n) ==
  IF n = 0 THEN S
  ELSE Below(reg,
             S \cup {x \in Keys(reg) : Get(reg, x).parent \in S}
               \cup UNION {Range(Get(reg, y).children) : y \in S \cap Keys(reg)},
             n - 1)

\* o with its children and deeper descendants
Subtree(reg, o) == Below(reg, {o}, Cardinality(ObjIds))

\* children is the exact inverse of parent in the registry reg
ChildrenInverse(reg) ==
  /\ \A i \in 1..Len(reg) :
       reg[i].parent # NoParent
         => /\ Has(reg, reg[i].parent)
            /\ Count(Get(reg, reg[i].parent).children, reg[i].id) = 1
  /\ \A i \in 1..Len(reg) : \A c \in Range(reg[i].children) :
       Has(reg, c) /\ Get(reg, c).parent = reg[i].id

\* C4: after removeObject(id) called by the owner on an object of a
\* registry whose children are the inverse of parent, the object and every
\* one of its descendants are absent from the registry, and no remaining
\* entry has a parent id or a children entry that refers to a removed
\* object.
C4_RemoveObjectRemovesSubtree ==
  [][\A p \in Peers, o \in ObjIds :
       (/\ id[p] # Undef
        /\ Has(objects[p], o)
        /\ Owner(p, o) = id[p]
        /\ ChildrenInverse(objects[p])
        /\ RemoveObject(p, o))
       => LET gone == Subtree(objects[p], o)
          IN /\ \A x \in gone : ~Has(objects'[p], x)
             /\ \A i \in 1..Len(objects'[p]) :
                  /\ objects'[p][i].parent \notin gone
                  /\ Range(objects'[p][i].children) \cap gone = {}]_vars

\* C5: in every reachable registry state, every object whose parent id is
\* p has p present with the object listed exactly once in p.children, and
\* every id listed in some p.children is a present object whose parent id
\* is p.
C5_ChildrenInverseOfParent == \A p \in Peers : ChildrenInverse(objects[p])

\* C6: addObject is idempotent: however many times it is called with the
\* same id, at most one 'add' notification is raised for the id, i.e. no
\* 'add' is raised for an id for which one has been raised already and
\* which has stayed in the registry since.
C6_AddObjectIdempotent ==
  [][\A p \in Peers, o \in ObjIds :
       AddRaised(p, o) => <<"add", p, o>> \notin seen]_vars

\* C7: a child whose insertion was deferred because its parent was absent
\* is inserted exactly once: once it is in the registry together with its
\* parent, the parent's children list it exactly once, also when its
\* descriptor was received more than once while the parent was absent.
C7_DeferredChildInsertedOnce ==
  \A p \in Peers, c \in ObjIds :
    (/\ <<"defer", p, c>> \in seen
     /\ Has(objects[p], c)
     /\ Has(objects[p], Get(objects[p], c).parent))
    => Count(Get(objects[p], Get(objects[p], c).parent).children, c) = 1

\* C8: when the relay delivers 'disconnected' for peer q, ownership of
\* q's objects is reassigned: afterwards no object in the registry is
\* still owned by q.
C8_DisconnectedReassignsOwnership ==
  [][\A p, q \in Peers :
       SocketDisconnected(p, q)
         => \A i \in 1..Len(objects'[p]) : objects'[p][i].owner # q]_vars

\* the 'remove' notifications for o among the notifications es
Removes(es, o) ==
  Cardinality({i \in 1..Len(es) : es[i].event = "remove" /\ es[i].id = o})

\* C9: when a Transport Peer for q closes at p, every avatar object owned
\* by q is deleted from p's registry, every other object owned by q stays
\* and becomes unowned, every object not owned by q stays as it is, and
\* exactly one 'remove' notification is raised for each deleted avatar
\* that has no parent and none for any other object.
C9_PeerCloseReleasesObjects ==
  [][\A p, q \in Peers, i \in 1..MaxTp :
       PeerClose(p, q, i)
         => \A o \in ObjIds :
              IF ~Has(objects[p], o)
                THEN ~Has(objects'[p], o) /\ Removes(emitted', o) = 0
              ELSE LET obj == Get(objects[p], o)
                   IN IF obj.owner # q
                        THEN /\ Has(objects'[p], o)
                             /\ Get(objects'[p], o) = obj
                             /\ Removes(emitted', o) = 0
                      ELSE IF obj.isAvatar
                        THEN /\ ~Has(objects'[p], o)
                             /\ Removes(emitted', o) =
                                  IF obj.parent = NoParent THEN 1 ELSE 0
                      ELSE /\ Has(objects'[p], o)
                           /\ OwnerAfter(p, o) = NoOwner
                           /\ Removes(emitted', o) = 0]_vars

\* a Transport Peer of p for q has closed: p holds q's non-avatar "hat"
\* unowned, has deleted q's avatar "av" and has raised 'remove' for it
C9_Witness ==
  \E p, q \in Peers :
    /\ p # q
    /\ Has(objects[p], "hat") /\ Owner(p, "hat") = NoOwner
    /\ ~Has(objects[p], "av") /\ ~Has(objects[p], "hl")
    /\ emitted = <<[peer |-> p, by |-> "close", event |-> "remove", id |-> "av"]>>

\* a message broadcast by p reaches q's channel
Reaches(p, q) == pool[p][q] /\ PoolPeer(p, q).connected /\ tps[q][p] # <<>>

\* C10: grabOwnership changes ownership only when the matching object is
\* not an avatar, its owner is not the local identity and its lastUpdate
\* is strictly earlier than the clock reading; then owner becomes the local
\* identity, lastUpdate the clock reading, and one update carrying (id,
\* owner, lastUpdate) is broadcast. In every other case the registry is
\* unchanged and nothing is broadcast.
C10_GrabOwnershipConditions ==
  [][\A p \in Peers, o \in ObjIds :
       GrabOwnership(p, o)
         => IF /\ Has(objects[p], o)
               /\ ~Get(objects[p], o).isAvatar
               /\ Owner(p, o) # id[p]
               /\ LastUpdate(p, o) < clock[p]
              THEN /\ Keys(objects'[p]) = Keys(objects[p])
                   /\ OwnerAfter(p, o) = id[p]
                   /\ LastUpdateAfter(p, o) = clock[p]
                   /\ \A x \in Keys(objects[p]) \ {o} :
                        Get(objects'[p], x) = Get(objects[p], x)
                   /\ \A q \in Peers :
                        chan'[p][q] =
                          IF Reaches(p, q)
                            THEN Append(chan[p][q], OwnerMsg(o, id[p], clock[p]))
                            ELSE chan[p][q]
              ELSE objects'[p] = objects[p] /\ chan' = chan]_vars

\* p has grabbed the non-avatar "hat" of q: it owns it as of its clock
\* reading and the update for q is in flight
C10_Witness ==
  \E p, q \in Peers :
    /\ p # q
    /\ Has(objects[p], "hat") /\ Owner(p, "hat") = p
    /\ LastUpdate(p, "hat") = clock[p]
    /\ chan[p][q] # <<>>
    /\ chan[p][q][Len(chan[p][q])] = OwnerMsg("hat", p, clock[p])

(* C11: an update whose object.owner is not the id of the peer that     *)
(* sent it is rejected: the receiver's registry is exactly as before and *)
(* no addObject is started (no load, no retry, nothing queued).          *)
C11_ForgedUpdateRejected ==
  [][\A p, q \in Peers, o \in ObjIds :
       Forged(p, q, o) =>
         /\ objects'[p] = objects[p]
         /\ loads'[p] = loads[p]
         /\ timers'[p] = timers[p]
         /\ cachedObjects'[p] = cachedObjects[p]
         /\ ~threw']_vars

\* peer 1 holds "prop" as its own and was given a forged update of it
C11_Witness ==
  /\ <<"forged", 1, "prop">> \in seen
  /\ Has(objects[1], "prop")
  /\ Owner(1, "prop") = 1

(* C12: handling an inbound update or remove, and removeObject, never    *)
(* ends in an exception: the handler that ran last (the only handlers    *)
(* that can throw are _peerData and removeObject; the load callback's    *)
(* exceptions are caught) did not throw.                                 *)
C12_HandlersNeverThrow == ~threw

\* peers p and q are linked both ways and nothing is under way between them
Settled(p, q) ==
  /\ Connected(p, q)
  /\ chan[p][q] = <<>> /\ chan[q][p] = <<>>
  /\ \A r \in {p, q} : loads[r] = EmptyBag /\ timers[r] = <<>>

(* C13: late join. Peer 1 (initiator) owns the avatar "av", created      *)
(* before or after peer 2 connects. Peer 1 sends peer 2 exactly one      *)
(* firstUpdate for it and peer 2 raises exactly one 'add' for it: no     *)
(* step sends or raises a second one, and once the peers are linked and  *)
(* everything sent has been handled, the one firstUpdate has been sent,  *)
(* the one 'add' raised and peer 2 holds one entry for "av", owner 1.    *)
C13_LateJoin ==
  /\ [][/\ FirstsFor(Appended(1, 2), "av") <= 1
        /\ FirstsFor(Appended(1, 2), "av") = 1 => <<"first", 1, "av">> \notin seen
        /\ AddRaised(2, "av") => <<"add", 2, "av">> \notin seen]_vars
  /\ [](Has(objects[2], "av") => Count([i \in 1..Len(objects[2]) |-> objects[2][i].id], "av") = 1
                                  /\ Owner(2, "av") = 1)
  /\ []((Settled(1, 2) /\ Has(objects[1], "av")) =>
          /\ <<"first", 1, "av">> \in seen
          /\ <<"add", 2, "av">> \in seen
          /\ Has(objects[2], "av"))

\* the peers are linked and peer 2 holds peer 1's avatar, announced once
C13_Witness ==
  /\ Settled(1, 2)
  /\ Has(objects[2], "av") /\ Owner(2, "av") = 1
  /\ <<"add", 2, "av">> \in seen
  /\ <<"first", 1, "av">> \in seen

\* the firstUpdate m carries the entry's id, owner, lastUpdate, parent and
\* isAvatar, and as type either the entry's type or, if asPath, 'path' for
\* the local avatar
Carries(m, obj, asPath) ==
  /\ m.type = "update" /\ m.firstUpdate
  /\ m.id = obj.id /\ m.owner = obj.owner /\ m.lastUpdate = obj.lastUpdate
  /\ m.parent = obj.parent /\ m.isAvatar = obj.isAvatar
  /\ m.otype = IF asPath /\ IsLocalAvatar(obj) THEN "path" ELSE obj.type

\* the step is _peerConnect of a Transport Peer of p for q and sends one
\* firstUpdate for every object p owns and nothing else
PushesOwned(p, q, asPath) ==
  (\E i \in 1..MaxTp : PeerConnect(p, q, i)) =>
    /\ \A o \in ObjIds :
         FirstsFor(Appended(p, q), o) =
           IF Has(objects[p], o) /\ Owner(p, o) = id[p] THEN 1 ELSE 0
    /\ \A k \in 1..Len(Appended(p, q)) :
         LET m == Appended(p, q)[k]
         IN Has(objects[p], m.id) /\ Carries(m, Get(objects[p], m.id), asPath)

(* C14 as stated: when a Transport Peer connects, the peer sends it      *)
(* exactly one firstUpdate for every object its registry records as      *)
(* owned by the local identity, carrying the entry's id, owner,          *)
(* lastUpdate, type, parent and isAvatar, and none for any other object. *)
C14_ConnectPushesOwnedAsStored ==
  [][\A p, q \in Peers : PushesOwned(p, q, FALSE)]_vars

(* C14, amended: ... carrying the entry's id, owner, lastUpdate, parent  *)
(* and isAvatar and the entry's type, except that the local avatar is    *)
(* announced with type 'path' (and its avatarPath as value).             *)
C14_ConnectPushesOwned ==
  [][\A p, q \in Peers : PushesOwned(p, q, TRUE)]_vars

\* peer 1's Transport Peer has connected and sent the announcements of its
\* avatar and of "hat" while it held "prop" unowned
C14_Witness ==
  /\ tps[1][2] # <<>> /\ tps[1][2][1].connected
  /\ Has(objects[1], "prop") /\ Owner(1, "prop") = NoOwner
  /\ FirstsFor(chan[1][2], "av") = 1
  /\ FirstsFor(chan[1][2], "hat") = 1
  /\ FirstsFor(chan[1][2], "prop") = 0

(* C15: round trip. An object peer 1 created and announced with a        *)
(* firstUpdate, once peer 2 has put the message through update() and     *)
(* the load has completed, has at peer 2 an entry with the same id and   *)
(* owner, the same position, rotation and scale and the same animated    *)
(* keys and values as the entry peer 1 holds.                            *)
C15_FirstUpdateRoundTrip ==
  \A o \in ObjIds :
    (Has(objects[1], o) /\ Has(objects[2], o)) =>
      LET a == Get(objects[1], o)
          b == Get(objects[2], o)
      IN /\ a.id = b.id
         /\ a.owner = b.owner
         /\ a.position = b.position /\ a.rotation = b.rotation /\ a.scale = b.scale
         /\ DOMAIN a.animatedValues = DOMAIN b.animatedValues
         /\ \A k \in DOMAIN a.animatedValues : a.animatedValues[k] = b.animatedValues[k]

\* the step hands p's _peerData a firstUpdate of o that names its sender q
\* as the owner, o being in p's registry
FirstUpdateOfHeld(p, q, o) ==
  /\ Delivers(p, q)
  /\ Head(chan[q][p]).type = "update" /\ Head(chan[q][p]).firstUpdate
  /\ Head(chan[q][p]).id = o /\ Head(chan[q][p]).owner = q
  /\ Has(objects[p], o)

\* p created its Transport Peers for q as the initiator
Initiated(p, q) == \A i \in 1..Len(tps[p][q]) : tps[p][q][i].initiator

(* C16: a firstUpdate (from the peer it names as owner) for an object    *)
(* already in the registry: if the receiver did not initiate the         *)
(* connection to the sender and its entry's owner differs from the       *)
(* message's, the entry's owner and lastUpdate become the message's; if  *)
(* the receiver initiated the connection, the entry's owner and          *)
(* lastUpdate stay as they are.                                          *)
C16_FirstUpdateOnHeldObject ==
  [][\A p, q \in Peers, o \in ObjIds :
       FirstUpdateOfHeld(p, q, o) =>
         /\ Has(objects'[p], o)
         /\ (~Initiated(p, q) /\ Owner(p, o) # q) =>
              /\ OwnerAfter(p, o) = q
              /\ LastUpdateAfter(p, o) = Head(chan[q][p]).lastUpdate
         /\ Initiated(p, q) =>
              /\ OwnerAfter(p, o) = Owner(p, o)
              /\ LastUpdateAfter(p, o) = LastUpdate(p, o)]_vars

\* p's pending loads and retries hold the descriptor d, owned by w when d
\* says 'self': addObject(d) has been called with p's identity assigned
Replayed(p, d, w) ==
  LET e == IF d.owner = SelfTag THEN [d EXCEPT !.owner = w] ELSE d
  IN \/ \E l \in BagToSet(loads'[p]) : l = <<e, w>>
     \/ \E i \in 1..Len(timers'[p]) : timers'[p][i] = <<d, Undef>>

(* C17: addObject called before the identity is assigned only queues     *)
(* the descriptor: the registry stays empty, no load or retry is         *)
(* started, nothing is sent and no notification raised. The relay's      *)
(* 'open' replays every queued descriptor through addObject, and an      *)
(* entry whose descriptor said owner 'self' is owned by the identity     *)
(* the 'open' assigned.                                                  *)
C17_QueuedUntilIdentity ==
  /\ [][\A p \in Peers :
         /\ (id[p] = Undef /\ calls'[p] # calls[p]) =>
              /\ Len(cachedObjects'[p]) = Len(cachedObjects[p]) + 1
              /\ objects'[p] = <<>> /\ loads'[p] = EmptyBag /\ timers'[p] = <<>>
              /\ chan' = chan /\ emitted' = <<>>
         /\ SocketOpen(p) =>
              /\ id'[p] = p
              /\ \A i \in 1..Len(cachedObjects[p]) :
                   Replayed(p, cachedObjects[p][i], p)]_vars
  /\ [](\A p \in Peers :
          /\ id[p] = Undef =>
               objects[p] = <<>> /\ loads[p] = EmptyBag /\ timers[p] = <<>>
          /\ \A i \in 1..Len(objects[p]) : objects[p][i].owner = id[p])

\* the avatar and its hand were queued before 'open' and are now in the
\* registry, owned by the identity
C17_Witness ==
  /\ Len(cachedObjects[1]) = 2
  /\ cachedObjects[1][1].owner = SelfTag
  /\ id[1] = 1
  /\ \A i \in 1..2 :
       /\ Has(objects[1], cachedObjects[1][i].id)
       /\ Owner(1, cachedObjects[1][i].id) = 1

\* the step settles the pending load l of p by raising 'error'
Fails(p, l) ==
  /\ l \in BagToSet(loads[p])
  /\ loads'[p] = loads[p] (-) SetToBag({l})
  /\ \E i \in 1..Len(emitted') :
       emitted'[i] = [peer |-> p, by |-> "load", event |-> "error", id |-> l[1].id]

(* C18: when materialization fails in addObject (unknown type, failed    *)
(* path load, no object with the name), 'error' is raised and the add    *)
(* is abandoned: the registry (entries and every children list) is as    *)
(* before, no 'add' is raised and nothing is sent. A descriptor of an    *)
(* unknown type always fails.                                            *)
C18_FailedLoadAbandonsAdd ==
  [][\A p \in Peers :
       \A l \in BagToSet(loads[p]) :
         /\ Fails(p, l) =>
              /\ objects' = objects
              /\ chan' = chan
              /\ Len(emitted') = 1
              /\ timers' = timers /\ cachedObjects' = cachedObjects
         /\ (/\ l[1].type \notin KnownTypes
             /\ CopiesIn(l, loads'[p]) < CopiesIn(l, loads[p])) => Fails(p, l)]_vars

\* the load of "hat" has failed at peer 2, which holds the parent "av"
\* with no child, while peer 1 holds "hat"
C18_Witness ==
  /\ emitted = << [peer |-> 2, by |-> "load", event |-> "error", id |-> "hat"] >>
  /\ Has(objects[2], "av") /\ Get(objects[2], "av").children = <<>>
  /\ ~Has(objects[2], "hat")
  /\ Has(objects[1], "hat")

\* the step hands p's _peerData a remove of o sent by q
RemoveDelivered(p, q, o) ==
  /\ Delivers(p, q)
  /\ Head(chan[q][p]).type = "remove"
  /\ Head(chan[q][p]).id = o

(* C19: a remove message from peer q for an object whose registry owner  *)
(* is q (in a registry whose children are the inverse of parent) leaves  *)
(* the object and all of its descendants, children and deeper, absent    *)
(* and the object unlisted in its parent's children; a remove from q for *)
(* an object that is absent or not owned by q leaves the registry as it  *)
(* is and raises no notification.                                        *)
C19_RemoteRemoveRemovesSubtree ==
  [][\A p, q \in Peers, o \in ObjIds :
       RemoveDelivered(p, q, o) =>
         IF Has(objects[p], o) /\ Owner(p, o) = q
           THEN ChildrenInverse(objects[p]) =>
                  /\ \A x \in Subtree(objects[p], o) : ~Has(objects'[p], x)
                  /\ \A i \in 1..Len(objects'[p]) :
                       o \notin Range(objects'[p][i].children)
           ELSE objects'[p] = objects[p] /\ emitted' = <<>>]_vars

(* C20: removeObject(id) is a no-op when the object is absent or its     *)
(* owner is not the local identity: the registry, children lists         *)
(* included, is as before, no remove message is sent, nothing is raised  *)
(* and nothing thrown.                                                   *)
C20_RemoveObjectNoOp ==
  [][\A p \in Peers, o \in ObjIds :
       (/\ ~Has(objects[p], o) \/ Owner(p, o) # id[p]
        /\ RemoveObject(p, o))
       => /\ objects' = objects
          /\ chan' = chan
          /\ emitted' = <<>> /\ ~threw']_vars

\* peer 1 has called removeObject while connected to peer 2 and holds peer
\* 2's avatar with its child and grandchild
C20_Witness ==
  /\ calls[1] = 1
  /\ \E i \in 1..Len(tps[1][2]) : tps[1][2][i].connected
  /\ Has(objects[1], "av") /\ Owner(1, "av") = 2
  /\ Get(objects[1], "av").children = <<"hat">>
  /\ Has(objects[1], "hat") /\ Get(objects[1], "hat").children = <<"gem">>
  /\ chan[1][2] = <<>>

\* the per-tick updates in msgs that are about o
TicksFor(msgs, o) ==
  {i \in 1..Len(msgs) :
     msgs[i].type = "update" /\ ~msgs[i].firstUpdate /\ msgs[i].id = o
       /\ msgs[i].position # NoArray}

(* C21: on a tick (animate) the peer sends its connected peers an update *)
(* for an object if and only if its registry records the local identity  *)
(* as the object's owner, one for each such object and none for an       *)
(* object that is unowned or owned by another peer; every such update    *)
(* carries the sender as object.owner.                                   *)
C21_AnimateSendsOwnedOnly ==
  [][\A p, q \in Peers :
       (Animate(p) /\ pool[p][q] /\ PoolPeer(p, q).connected /\ tps[q][p] # <<>>) =>
         /\ \A o \in ObjIds :
              Cardinality(TicksFor(Appended(p, q), o)) =
                IF Has(objects[p], o) /\ Owner(p, o) = id[p] THEN 1 ELSE 0
         /\ \A k \in 1..Len(Appended(p, q)) :
              /\ k \in TicksFor(Appended(p, q), Appended(p, q)[k].id)
              /\ Appended(p, q)[k].owner = id[p]]_vars

\* peer 1's tick has sent the update of its avatar, and none of "prop",
\* which it holds unowned
C21_Witness ==
  /\ Has(objects[1], "prop") /\ Owner(1, "prop") = NoOwner
  /\ Has(objects[1], "av") /\ Owner(1, "av") = 1
  /\ Cardinality(TicksFor(chan[1][2], "av")) = 1
  /\ TicksFor(chan[1][2], "prop") = {}

\* the array after has three components: those before has, kept, and 0 for
\* the others
Defaulted(before, after) ==
  /\ Len(after) = 3
  /\ \A i \in 1..3 : after[i] = IF i <= Len(before) THEN before[i] ELSE 0

(* C22: after a tick (animate), every object not owned locally has a     *)
(* position, a rotation and a scale of three components each, a          *)
(* component never received being 0 and a received one as received.      *)
C22_AnimateDefaultsTransform ==
  [][\A p \in Peers :
       Animate(p) =>
         \A i \in 1..Len(objects[p]) :
           objects[p][i].owner # id[p] =>
             /\ Defaulted(objects[p][i].position, objects'[p][i].position)
             /\ Defaulted(objects[p][i].rotation, objects'[p][i].rotation)
             /\ Defaulted(objects[p][i].scale, objects'[p][i].scale)]_vars

Creates(p, q, initiator) ==
  /\ tps'[p][q] = Append(tps[p][q], [initiator |-> initiator, connected |-> FALSE])
  /\ \A r \in Peers \ {q} : tps'[p][r] = tps[p][r]
  /\ pool'[p][q]

(* C24: the pool holds one Transport Peer per remote id. A relay         *)
(* 'connected' creates an initiating Transport Peer only if the pool     *)
(* has none for that id, a relay 'signal' a non-initiating one only if   *)
(* the pool has none; with one registered, it stays registered, no       *)
(* Transport Peer is created and every Transport Peer keeps its role.    *)
C24_OneTransportPeerPerId ==
  [][\A p, q \in Peers :
       /\ (SocketConnected(p, q) \/ SocketSignal(p, q)) =>
            /\ pool[p][q] => tps' = tps /\ pool' = pool
            /\ \A r \in Peers \ {p} : tps'[r] = tps[r] /\ pool'[r] = pool[r]
       /\ (SocketConnected(p, q) /\ ~pool[p][q]) => Creates(p, q, TRUE)
       /\ (SocketSignal(p, q) /\ ~pool[p][q]) => Creates(p, q, FALSE)]_vars

\* peer 1 initiated; peer 2 got a first Transport Peer by a 'signal', lost
\* its pool entry and got a second one by a later 'signal'
C24_Witness ==
  /\ Len(tps[1][2]) = 1 /\ tps[1][2][1].initiator /\ pool[1][2]
  /\ Len(tps[2][1]) = 2 /\ pool[2][1]
  /\ ~tps[2][1][1].initiator /\ ~tps[2][1][2].initiator

(* C25: close cleanup is idempotent: the close handler run a second     *)
(* time for the same Transport Peer, on the state its first run left,    *)
(* leaves the registry and the pool as they are and raises no 'remove'.  *)
C25_CloseIdempotent ==
  [][\A p, q \in Peers, i \in 1..MaxTp :
       PeerClose(p, q, i) =>
         LET after == objects'[p]
             again == peerClose(after, q)
         IN /\ again.objects = after
            /\ again.emits = <<>>
            /\ ~pool'[p][q]]_vars

\* the first run has just deleted peer 1's avatar and its hand at peer 2
\* and released "hat"
C25_Witness ==
  /\ emitted = Emit(2, "close", << <<"remove", "av">> >>)
  /\ tps[2][1] = <<>> /\ ~pool[2][1]
  /\ Keys(objects[2]) = {"hat"}
  /\ Owner(2, "hat") = NoOwner

\* the step hands p's _peerData an update from q, naming q as owner, of
\* the object o that p's registry does not have
UpdateOfUnknown(p, q, o) ==
  /\ Delivers(p, q)
  /\ Head(chan[q][p]).type = "update"
  /\ Head(chan[q][p]).id = o /\ Head(chan[q][p]).owner = q
  /\ ~Has(objects[p], o)

(* C26: an update for an id that is not in the registry and that has no  *)
(* full descriptor (object.type and object.value) is discarded: the      *)
(* registry is as before and no addObject is started; with a full        *)
(* descriptor, addObject is started for that descriptor with the sender  *)
(* as origin (a load of it, or a retry while its parent is missing).     *)
C26_UpdateOfUnknownObject ==
  [][\A p, q \in Peers, o \in ObjIds :
       UpdateOfUnknown(p, q, o) =>
         LET m == Head(chan[q][p])
         IN /\ objects'[p] = objects[p] /\ cachedObjects'[p] = cachedObjects[p]
            /\ ~threw'
            /\ m.otype = "" => loads'[p] = loads[p] /\ timers'[p] = timers[p]
            /\ m.otype # "" =>
                 \/ /\ loads'[p] = loads[p] (+) SetToBag({<<MsgData(m), q>>})
                    /\ timers'[p] = timers[p]
                 \/ /\ m.parent # NoParent
                    /\ loads'[p] = loads[p]
                    /\ timers'[p] = Append(timers[p], <<MsgData(m), q>>)]_vars

\* peer 2 has sent three messages and all were handled; peer 1, whose
\* registry has no "prop", loads the announced "prop" for origin 2
C26_Witness ==
  /\ calls[2] = 3 /\ chan[2][1] = <<>>
  /\ ~Has(objects[1], "prop")
  /\ \E l \in BagToSet(loads[1]) : l[1].id = "prop" /\ l[2] = 2
  /\ BagCardinality(loads[1]) = 1

\* p has no Transport Peer for q left and nothing started at p is
\* outstanding: no load, no retry, and nothing sent by q awaits handling
ClosedAndDrained(p, q) ==
  /\ p # q
  /\ tps[p][q] = <<>> /\ ~pool[p][q]
  /\ loads[p] = EmptyBag /\ timers[p] = <<>>
  /\ chan[q][p] = <<>>

(* C27: when a load or a deferred-parent retry is pending at p for a     *)
(* descriptor received from q while q's Transport Peer closes, then once *)
(* the close has been processed and every pending load and retry has     *)
(* run, p's registry has no object whose owner is q.                     *)
C27_NoOwnerLeftAfterClose ==
  \A p, q \in Peers :
    ClosedAndDrained(p, q) =>
      \A o \in ObjIds : Has(objects[p], o) => Owner(p, o) # q

\* the i-th Transport Peer of p for q is not the one p's pool holds for
\* q: a later one has been created and registered
Superseded(p, q, i) ==
  /\ pool[p][q]
  /\ i \in 1..(Len(tps[p][q]) - 1)

(* C28: the pool entry for a remote id refers to the most recently       *)
(* created Transport Peer for it: when the close of an earlier Transport *)
(* Peer fires after a later one has been created and registered, the     *)
(* later one stays registered, so it keeps receiving broadcasts.         *)
C28_NewestTransportPeerStaysRegistered ==
  [][\A p, q \in Peers, i \in 1..MaxTp :
       (Superseded(p, q, i) /\ PeerClose(p, q, i)) => pool'[p][q]]_vars

(* C29: late join. Once the joining peer q is connected to the existing *)
(* peer p and every connect-time message has been delivered and loaded,  *)
(* q's registry contains every object of p's registry, the objects that  *)
(* have no owner included.                                               *)
C29_LateJoinerLearnsScene ==
  \A p, q \in Peers :
    (p # q /\ Settled(p, q)) =>
      \A o \in ObjIds : Has(objects[p], o) => Has(objects[q], o)

====
